---------------------------- MODULE Spec2Model ----------------------------
(***************************************************************************)
(* A model of the three routines of examples/lib:                          *)
(*   array.c       sum_of_squares                                          *)
(*   fib.c         fibonacci_iterative                                     *)
(*   string_lib.c  create_string / free_string                             *)
(*                                                                         *)
(* C's int is the 32-bit two's complement type, which is exactly the range *)
(* of TLC's integers.  C's long long is 64 bits wide, which TLC's integers *)
(* cannot hold, so a long long value is kept as an exact integer in        *)
(* sign-magnitude form (a sequence of limbs, least significant first);     *)
(* whether a value fits the 64-bit type is then a comparison, and signed   *)
(* overflow is something the model can see.                                *)
(***************************************************************************)
EXTENDS Integers, Sequences, FiniteSets, Bags, TLC

VARIABLES
    \* sum_of_squares (array.c)
    s_pc,       \* "idle" | "loop" | "done" | "trap"
    s_arr,      \* the caller's array (a sequence of int)
    s_n,        \* the count passed
    s_i,        \* the loop index (size_t)
    s_result,   \* the accumulator (long long)
    s_term,     \* the squared term of the last iteration (long long)
    s_reads,    \* the array indices (0-based) read so far
    s_ub,       \* "none" | "mul" | "add": the signed overflow that happened
    s_ret,      \* the value returned
    \* fibonacci_iterative (fib.c)
    f_pc,       \* "idle" | "loop" | "left" | "done" | "trap"
    f_n,        \* the argument
    f_i,        \* the loop counter (int)
    f_prev,     \* prev (long long)
    f_current,  \* current (long long)
    f_iters,    \* how many times the loop body has run
    f_ub,       \* "none" | "add" | "inc": the signed overflow that happened
    f_ret,      \* the value returned
    \* create_string / free_string (string_lib.c)
    mem,        \* the bytes of each memory region (heap block or input buffer)
    live,       \* the heap blocks malloc has handed out and free has not taken back
    err,        \* "none", or the memory error that happened
    pc,         \* per thread: "idle" | "malloc" | "copy" | "ret" | "freed"
    c_input,    \* per thread: the parameter input of create_string
    c_len,      \* per thread: the local len
    c_result,   \* per slot: the local result
    owned,      \* per thread: the bag of buffers the caller holds and has not released
    call        \* per thread: the record of the call it is in (what it was
                \* given, the string in it, the pointers it passed to free)

sumVars == <<s_pc, s_arr, s_n, s_i, s_result, s_term, s_reads, s_ub, s_ret>>
fibVars == <<f_pc, f_n, f_i, f_prev, f_current, f_iters, f_ub, f_ret>>
strVars == <<mem, live, err, pc, c_input, c_len, c_result, owned, call>>

---------------------------------------------------------------------------
(* Exact integers.                                                         *)

\* The limb base of the representation.
Base == 100 * 100

RECURSIVE MagOfNat(_)
MagOfNat(n) == IF n = 0 THEN <<>> ELSE <<n % Base>> \o MagOfNat(n \div Base)

RECURSIVE Strip(_)
Strip(a) ==
    IF a # <<>> /\ a[Len(a)] = 0 THEN Strip(SubSeq(a, 1, Len(a) - 1)) ELSE a

Hd(a) == IF a = <<>> THEN 0 ELSE Head(a)
Tl(a) == IF a = <<>> THEN <<>> ELSE Tail(a)

RECURSIVE MagAddC(_, _, _)
MagAddC(a, b, c) ==
    IF a = <<>> /\ b = <<>>
    THEN (IF c = 0 THEN <<>> ELSE <<c>>)
    ELSE LET s == Hd(a) + Hd(b) + c
         IN  <<s % Base>> \o MagAddC(Tl(a), Tl(b), s \div Base)

MagAdd(a, b) == MagAddC(a, b, 0)

\* a - b - bw for a >= b + bw; the caller strips the leading zero limbs.
RECURSIVE MagSubB(_, _, _)
MagSubB(a, b, bw) ==
    IF a = <<>> THEN <<>>
    ELSE LET y == Hd(b) + bw
         IN  IF Head(a) >= y
             THEN <<Head(a) - y>> \o MagSubB(Tail(a), Tl(b), 0)
             ELSE <<Head(a) + Base - y>> \o MagSubB(Tail(a), Tl(b), 1)

MagSub(a, b) == Strip(MagSubB(a, b, 0))

\* -1, 0 or 1 as a < b, a = b, a > b.
RECURSIVE MagCmpEq(_, _)
MagCmpEq(a, b) ==
    IF a = <<>> THEN 0
    ELSE IF a[Len(a)] < b[Len(b)] THEN -1
    ELSE IF a[Len(a)] > b[Len(b)] THEN 1
    ELSE MagCmpEq(SubSeq(a, 1, Len(a) - 1), SubSeq(b, 1, Len(b) - 1))

MagCmp(a, b) ==
    IF Len(a) < Len(b) THEN -1
    ELSE IF Len(a) > Len(b) THEN 1
    ELSE MagCmpEq(a, b)

RECURSIVE MagMulLimb(_, _, _)
MagMulLimb(a, d, c) ==
    IF a = <<>>
    THEN (IF c = 0 THEN <<>> ELSE <<c>>)
    ELSE LET p == Head(a) * d + c
         IN  <<p % Base>> \o MagMulLimb(Tail(a), d, p \div Base)

RECURSIVE MagMul(_, _)
MagMul(a, b) ==
    IF a = <<>> \/ b = <<>> THEN <<>>
    ELSE LET rest == MagMul(a, Tail(b))
         IN  Strip(MagAdd(MagMulLimb(a, Head(b), 0),
                          IF rest = <<>> THEN <<>> ELSE <<0>> \o rest))

Z(neg, mag) == [neg |-> neg /\ mag # <<>>, mag |-> mag]

Zero == Z(FALSE, <<>>)
One == Z(FALSE, <<1>>)

ZNeg(x) == Z(~x.neg, x.mag)

ZAdd(x, y) ==
    IF x.neg = y.neg THEN Z(x.neg, MagAdd(x.mag, y.mag))
    ELSE IF MagCmp(x.mag, y.mag) >= 0 THEN Z(x.neg, MagSub(x.mag, y.mag))
    ELSE Z(y.neg, MagSub(y.mag, x.mag))

ZSub(x, y) == ZAdd(x, ZNeg(y))

ZMul(x, y) == Z(x.neg # y.neg, MagMul(x.mag, y.mag))

ZLe(x, y) ==
    IF x.neg /\ ~y.neg THEN TRUE
    ELSE IF ~x.neg /\ y.neg THEN FALSE
    ELSE IF x.neg THEN MagCmp(x.mag, y.mag) >= 0
    ELSE MagCmp(x.mag, y.mag) <= 0

\* The exact integer of a TLC integer (no negation of the least int).
ZOfInt(n) ==
    IF n >= 0 THEN Z(FALSE, MagOfNat(n))
    ELSE Z(TRUE, MagAdd(MagOfNat(-(n + 1)), <<1>>))

\* The decimal numeral of an exact integer.
Pad4(d) ==
    IF d < 10 THEN "000" \o ToString(d)
    ELSE IF d < 100 THEN "00" \o ToString(d)
    ELSE IF d < 1000 THEN "0" \o ToString(d)
    ELSE ToString(d)

RECURSIVE LowDec(_)
LowDec(a) == IF a = <<>> THEN "" ELSE LowDec(Tail(a)) \o Pad4(Head(a))

Dec(x) ==
    IF x.mag = <<>> THEN "0"
    ELSE (IF x.neg THEN "-" ELSE "")
             \o ToString(x.mag[Len(x.mag)])
             \o LowDec(SubSeq(x.mag, 1, Len(x.mag) - 1))

---------------------------------------------------------------------------
(* The C integer types.                                                    *)

INT_MAX == 2147483647
INT_MIN == -INT_MAX - 1

Two31 == ZAdd(ZOfInt(INT_MAX), One)
Two63 == LET t == ZMul(Two31, Two31) IN ZAdd(t, t)
Two64 == ZAdd(Two63, Two63)
LLONG_MAX == ZSub(Two63, One)
LLONG_MIN == ZNeg(Two63)

FitsInt(x) == ZLe(ZOfInt(INT_MIN), x) /\ ZLe(x, ZOfInt(INT_MAX))
FitsLL(x) == ZLe(LLONG_MIN, x) /\ ZLe(x, LLONG_MAX)

\* The 64-bit two's complement value of x, for x within one 2^64 of the range.
WrapLL(x) ==
    IF ZLe(x, LLONG_MAX)
    THEN (IF ZLe(LLONG_MIN, x) THEN x ELSE ZAdd(x, Two64))
    ELSE ZSub(x, Two64)

\* int -> long long: value preserving.
Widen(a) == ZOfInt(a)

\* What a signed long long operation with exact result x can do: the exact
\* result when it fits; on overflow (undefined behaviour) either the wrapped
\* value, the program going on, or a trap.
Outcomes(x, kind) ==
    IF FitsLL(x)
    THEN {[val |-> x, ub |-> "none", trap |-> FALSE]}
    ELSE {[val |-> WrapLL(x), ub |-> kind, trap |-> t] : t \in BOOLEAN}

AddLL(x, y) == Outcomes(ZAdd(x, y), "add")
MulLL(x, y) == Outcomes(ZMul(x, y), "mul")

---------------------------------------------------------------------------
(* array.c: sum_of_squares                                                 *)

\* The longest array a caller passes.
MaxLen == 3

\* The element values callers use: the two ends of int, the least value whose
\* square does not fit 32 bits, and small values of both signs.
ElemVals == {INT_MIN, -3, 0, 2, 46341, INT_MAX}

Arrays == UNION {[1..k -> ElemVals] : k \in 0..MaxLen}

\* The term with the product taken in int and widened afterwards: beyond 32
\* bits the int product overflows.
TermNarrow(a) ==
    LET x == ZMul(ZOfInt(a), ZOfInt(a))
    IN  IF FitsInt(x)
        THEN {[val |-> x, ub |-> "none", trap |-> FALSE]}
        ELSE {[val |-> Zero, ub |-> "mul", trap |-> t] : t \in BOOLEAN}

\* array.c:6, the term: the cast applies to the left operand, the right one is
\* converted to long long by the usual arithmetic conversions.
Term(a) == MulLL(Widen(a), Widen(a))

\* The loop condition that stops one element early.
SumCondShort(i, n) == i < n - 1

\* array.c:5, the loop condition.
SumCond(i, n) == i < n

\* array.c:3-4 and the initialisation of the loop: the call.
SumCall(arr, n) ==
    /\ s_pc = "idle"
    /\ s_pc' = "loop"
    /\ s_arr' = arr
    /\ s_n' = n
    /\ s_i' = 0
    /\ s_result' = Zero
    /\ UNCHANGED <<s_term, s_reads, s_ub, s_ret>>
    /\ UNCHANGED <<fibVars, strVars>>

\* array.c:5-7, one iteration: read arr[i], square it, add it, ++i.
SumStep ==
    /\ s_pc = "loop"
    /\ SumCond(s_i, s_n)
    /\ \E m \in Term(s_arr[s_i + 1]) :
       \E a \in (IF m.trap THEN {m} ELSE AddLL(s_result, m.val)) :
          /\ s_reads' = s_reads \cup {s_i}
          /\ s_term' = m.val
          /\ s_ub' = IF s_ub # "none" THEN s_ub
                     ELSE IF m.ub # "none" THEN m.ub ELSE a.ub
          /\ s_pc' = IF a.trap THEN "trap" ELSE "loop"
          /\ s_result' = IF a.trap THEN s_result ELSE a.val
          /\ s_i' = IF a.trap THEN s_i ELSE s_i + 1
    /\ UNCHANGED <<s_arr, s_n, s_ret>>
    /\ UNCHANGED <<fibVars, strVars>>

\* array.c:5 (the condition fails) and array.c:8.
SumReturn ==
    /\ s_pc = "loop"
    /\ ~SumCond(s_i, s_n)
    /\ s_pc' = "done"
    /\ s_ret' = s_result
    /\ UNCHANGED <<s_arr, s_n, s_i, s_result, s_term, s_reads, s_ub>>
    /\ UNCHANGED <<fibVars, strVars>>

SumInit ==
    /\ s_pc = "idle"
    /\ s_arr = <<>>
    /\ s_n = 0
    /\ s_i = 0
    /\ s_result = Zero
    /\ s_term = Zero
    /\ s_reads = {}
    /\ s_ub = "none"
    /\ s_ret = Zero

SumNext ==
    \/ \E arr \in Arrays : \E n \in 0..Len(arr) : SumCall(arr, n)
    \/ SumStep
    \/ SumReturn

\* The element of a one-element set (the locals of a loop are worked out
\* before the next pass starts).
The(S) == CHOOSE x \in S : TRUE

\* array.c:4-5, the locals on entry to the loop.
SumEntry == [i |-> 0, result |-> Zero, ub |-> FALSE]

\* array.c:5-7, one pass through the loop on the build that wraps on
\* overflow; once the condition fails the locals stay as they are.
SumBody(arr, n, st) ==
    IF SumCond(st.i, n)
    THEN LET m == CHOOSE o \in Term(arr[st.i + 1]) : ~o.trap
             a == CHOOSE o \in AddLL(st.result, m.val) : ~o.trap
         IN  [i |-> st.i + 1,
              result |-> a.val,
              ub |-> st.ub \/ m.ub # "none" \/ a.ub # "none"]
    ELSE st

\* array.c:5-7, the loop: the locals after at most k passes, the passes
\* split in halves.
RECURSIVE SumLoop(_, _, _, _)
SumLoop(arr, n, st, k) ==
    IF k <= 1
    THEN (IF k = 1 THEN SumBody(arr, n, st) ELSE st)
    ELSE The({SumLoop(arr, n, mid, k - k \div 2) :
                 mid \in {SumLoop(arr, n, st, k \div 2)}})

\* The function as a whole: the value returned, and whether the run met
\* undefined behaviour (the value is then the one of the wrapping build).
\* The loop makes n passes at most, i going up by one from 0.
sum_of_squares(arr, n) ==
    LET st == SumLoop(arr, n, SumEntry, n)
    IN  [val |-> st.result, ub |-> st.ub]

---------------------------------------------------------------------------
(* fib.c: fibonacci_iterative                                              *)

\* The largest index a caller passes (the least int is passed too).
MaxFibN == 95

FibInputs == {INT_MIN} \cup (-2..MaxFibN)

\* The early return taken for 0 and 1 only.
FibBaseNonNeg(n) == n = 0 \/ n = 1

\* fib.c:6
FibBase(n) == n <= 1

\* The loop condition that stops one iteration early.
FibCondShort(i, n) == i < n

\* fib.c:13, the loop condition.
FibCond(i, n) == i <= n

\* The sum taken after prev was overwritten by current.
FibSumStale(prev, current) == AddLL(current, current)

\* fib.c:14, next = prev + current.
FibSum(prev, current) == AddLL(prev, current)

\* fib.c:13, i++ on an int.  At INT_MAX the increment overflows (undefined
\* behaviour): the counter wraps to INT_MIN and the loop goes on, or the
\* program traps, or the loop is left (the build that counts the iterations
\* takes i <= n to fail after the iteration i = INT_MAX).
IncInt(i) ==
    IF i < INT_MAX
    THEN {[val |-> i + 1, ub |-> "none", trap |-> FALSE, left |-> FALSE]}
    ELSE {[val |-> INT_MIN, ub |-> "inc", trap |-> FALSE, left |-> FALSE],
          [val |-> INT_MIN, ub |-> "inc", trap |-> TRUE, left |-> FALSE],
          [val |-> i, ub |-> "inc", trap |-> FALSE, left |-> TRUE]}

\* fib.c:4-11: the call, the early return, the initialisation.
FibCall(n) ==
    /\ f_pc = "idle"
    /\ f_n' = n
    /\ IF FibBase(n)
       THEN /\ f_pc' = "done"
            /\ f_ret' = Widen(n)
            /\ UNCHANGED <<f_i, f_prev, f_current>>
       ELSE /\ f_pc' = "loop"
            /\ f_prev' = Zero
            /\ f_current' = One
            /\ f_i' = 2
            /\ UNCHANGED f_ret
    /\ UNCHANGED <<f_iters, f_ub>>
    /\ UNCHANGED <<sumVars, strVars>>

\* fib.c:13-17, one iteration: the body, then i++.
FibStep ==
    /\ f_pc = "loop"
    /\ FibCond(f_i, f_n)
    /\ \E nx \in FibSum(f_prev, f_current) :
       \E ic \in (IF nx.trap
                  THEN {[val |-> f_i, ub |-> nx.ub, trap |-> TRUE,
                         left |-> FALSE]}
                  ELSE IncInt(f_i)) :
          /\ f_ub' = IF f_ub # "none" THEN f_ub
                     ELSE IF nx.ub # "none" THEN nx.ub ELSE ic.ub
          /\ f_pc' = IF ic.trap THEN "trap"
                     ELSE IF ic.left THEN "left" ELSE "loop"
          /\ f_prev' = IF nx.trap THEN f_prev ELSE f_current
          /\ f_current' = IF nx.trap THEN f_current ELSE nx.val
          /\ f_i' = IF ic.trap THEN f_i ELSE ic.val
          /\ f_iters' = IF nx.trap THEN f_iters ELSE f_iters + 1
    /\ UNCHANGED <<f_n, f_ret>>
    /\ UNCHANGED <<sumVars, strVars>>

\* fib.c:13 (the condition fails, or the loop was left) and fib.c:19.
FibReturn ==
    /\ f_pc \in {"loop", "left"}
    /\ f_pc = "loop" => ~FibCond(f_i, f_n)
    /\ f_pc' = "done"
    /\ f_ret' = f_current
    /\ UNCHANGED <<f_n, f_i, f_prev, f_current, f_iters, f_ub>>
    /\ UNCHANGED <<sumVars, strVars>>

FibInit ==
    /\ f_pc = "idle"
    /\ f_n = 0
    /\ f_i = 0
    /\ f_prev = Zero
    /\ f_current = Zero
    /\ f_iters = 0
    /\ f_ub = "none"
    /\ f_ret = Zero

FibNext ==
    \/ \E n \in FibInputs : FibCall(n)
    \/ FibStep
    \/ FibReturn

\* fib.c:10-11 and 13, the locals on entry to the loop.
FibEntry ==
    [i |-> 2, prev |-> Zero, current |-> One, ub |-> FALSE, left |-> FALSE]

\* fib.c:13-17, one pass through the loop on a build that does not trap: an
\* overflowing sum wraps, and the increment of i = INT_MAX ends the loop (the
\* one outcome with which the call returns).  Once the loop has ended the
\* locals stay as they are.
FibBody(n, st) ==
    IF ~st.left /\ FibCond(st.i, n)
    THEN LET nx == CHOOSE o \in FibSum(st.prev, st.current) : ~o.trap
             ic == CHOOSE o \in IncInt(st.i) : o.ub = "none" \/ o.left
         IN  [i |-> ic.val,
              prev |-> st.current,
              current |-> nx.val,
              ub |-> st.ub \/ nx.ub # "none" \/ ic.ub # "none",
              left |-> ic.left]
    ELSE st

\* fib.c:13-17, the loop: the locals after at most k passes, the passes split
\* in halves.
RECURSIVE FibLoop(_, _, _)
FibLoop(n, st, k) ==
    IF k <= 1
    THEN (IF k = 1 THEN FibBody(n, st) ELSE st)
    ELSE The({FibLoop(n, mid, k - k \div 2) :
                 mid \in {FibLoop(n, st, k \div 2)}})

\* The function as a whole: the value returned, and whether the run met
\* undefined behaviour.  The loop makes n - 1 passes at most, i going up by
\* one from 2.
fibonacci_iterative(n) ==
    IF FibBase(n) THEN [val |-> Widen(n), ub |-> FALSE]
    ELSE LET st == FibLoop(n, FibEntry, n - 1)
         IN  [val |-> st.current, ub |-> st.ub]

---------------------------------------------------------------------------
(* string_lib.c: create_string, free_string                                *)

\* string_lib.c:9, :16
NULL == 0

\* The blocks the heap can hand out.
HeapSize == 2

\* The longest string a caller passes (without its terminator).
MaxStrLen == 2

\* The threads that call the library.
Threads == {1, 2}

\* A single caller: the first thread.
Main == CHOOSE t \in Threads : \A u \in Threads : t <= u

\* The characters of thread t's strings (each thread has its own, so that a
\* string tells whose it is), and the bytes a fresh block may hold.
Chars(t) == {96 + t}
JunkBytes == {0, 255}

HeapPtrs == 1..HeapSize
\* Thread t's own input buffer, a region outside the heap.
InPtr(t) == HeapSize + t
Regions == HeapPtrs \cup {InPtr(t) : t \in Threads}

\* The null-terminated strings of at most MaxStrLen characters, as bytes.
CStrings(t) ==
    UNION {{s \o <<0>> : s \in [1..k -> Chars(t)]} : k \in 0..MaxStrLen}

\* string.h strlen: the bytes before the first zero byte (-1: none in bytes).
RECURSIVE StrLenFrom(_, _)
StrLenFrom(bytes, k) ==
    IF k > Len(bytes) THEN -1
    ELSE IF bytes[k] = 0 THEN k - 1
    ELSE StrLenFrom(bytes, k + 1)

strlen(bytes) == StrLenFrom(bytes, 1)

\* string.h strcpy: src's bytes up to and with its terminator, over dst.
strcpy(dst, src) ==
    [k \in 1..Len(dst) |-> IF k <= strlen(src) + 1 THEN src[k] ELSE dst[k]]

\* The size without the byte of the terminator.
MallocSizeNoTerm(len) == len * 1

\* string_lib.c:8, the size asked of malloc (sizeof(char) is 1).
MallocSize(len) == (len + 1) * 1

\* The copy made whatever malloc returned.
CopyAlways(result) == TRUE

\* string_lib.c:9
CopyCond(result) == result # NULL

\* result kept in one static variable, shared by all invocations.
ResultSlotShared(t) == Main

\* string_lib.c:8: result is a local of the invocation, one per thread.
ResultSlot(t) == t

\* The input returned in place of the copy.
CreateReturnAlias(input, result) == input

\* string_lib.c:12
CreateReturn(input, result) == result

\* free called without the test for NULL.
FreeArgsNoCheck(str) == {str}

\* string_lib.c:16-18: the pointers free_string passes to free.
FreeArgs(str) == IF str # NULL THEN {str} ELSE {}

NoCall == [op |-> "none", arg |-> NULL, in |-> <<>>, released |-> {}]

\* The caller puts the string s in the buffer src (its own input buffer, or
\* a buffer it holds, whose string stays) and calls create_string(src);
\* string_lib.c:6-7: len = strlen(input).
CreateCall(t, src, s) ==
    /\ err = "none"
    /\ pc[t] = "idle"
    /\ mem' = [mem EXCEPT ![src] = s]
    /\ c_input' = [c_input EXCEPT ![t] = src]
    /\ c_len' = [c_len EXCEPT ![t] = strlen(s)]
    /\ call' = [call EXCEPT ![t] =
                   [op |-> "create_string", arg |-> src, in |-> s,
                    released |-> {}]]
    /\ pc' = [pc EXCEPT ![t] = "malloc"]
    /\ UNCHANGED <<live, err, c_result, owned>>
    /\ UNCHANGED <<sumVars, fibVars>>

\* string_lib.c:8: result = malloc(...).  The allocator, atomically, fails or
\* hands out a block that is not live, of the size asked, whose bytes are
\* indeterminate (here: all zero, or all 255).
Malloc(t) ==
    /\ err = "none"
    /\ pc[t] = "malloc"
    /\ \/ /\ c_result' = [c_result EXCEPT ![ResultSlot(t)] = NULL]
          /\ UNCHANGED <<mem, live>>
       \/ \E a \in HeapPtrs \ live :
          \E j \in JunkBytes :
             /\ c_result' = [c_result EXCEPT ![ResultSlot(t)] = a]
             /\ live' = live \cup {a}
             /\ mem' = [mem EXCEPT
                           ![a] = [k \in 1..MallocSize(c_len[t]) |-> j]]
    /\ pc' = [pc EXCEPT ![t] = "copy"]
    /\ UNCHANGED <<err, c_input, c_len, owned, call>>
    /\ UNCHANGED <<sumVars, fibVars>>

\* string_lib.c:9-11: if (result != NULL) strcpy(result, input).
Copy(t) ==
    /\ err = "none"
    /\ pc[t] = "copy"
    /\ LET result == c_result[ResultSlot(t)]
           input == c_input[t]
       IN  IF CopyCond(result)
           THEN IF result = NULL
                   THEN err' = "null_write" /\ UNCHANGED mem
                   ELSE IF result \notin live
                           \/ (input \in HeapPtrs /\ input \notin live)
                   THEN err' = "use_after_free" /\ UNCHANGED mem
                   ELSE IF strlen(mem[input]) + 1 > Len(mem[result])
                   THEN err' = "overflow" /\ UNCHANGED mem
                   ELSE /\ mem' = [mem EXCEPT
                                      ![result] = strcpy(@, mem[input])]
                        /\ UNCHANGED err
           ELSE UNCHANGED <<mem, err>>
    /\ pc' = [pc EXCEPT ![t] = "ret"]
    /\ UNCHANGED <<live, c_input, c_len, c_result, owned, call>>
    /\ UNCHANGED <<sumVars, fibVars>>

\* string_lib.c:12-13: return result.  The caller holds the buffer it is
\* given; the locals of the invocation are gone, and so is the string the
\* caller had put in its input buffer for the call.
Return(t) ==
    /\ err = "none"
    /\ pc[t] = "ret"
    /\ LET r == CreateReturn(c_input[t], c_result[ResultSlot(t)])
       IN  owned' = [owned EXCEPT ![t] =
                        IF r = NULL THEN @ ELSE @ (+) SetToBag({r})]
    /\ pc' = [pc EXCEPT ![t] = "idle"]
    /\ c_input' = [c_input EXCEPT ![t] = NULL]
    /\ c_len' = [c_len EXCEPT ![t] = 0]
    /\ c_result' = [c_result EXCEPT ![ResultSlot(t)] = NULL]
    /\ mem' = [mem EXCEPT ![InPtr(t)] = <<0>>]
    /\ call' = [call EXCEPT ![t] = NoCall]
    /\ UNCHANGED <<live, err>>
    /\ UNCHANGED <<sumVars, fibVars>>

\* string_lib.c:15-18: free_string(str), for str a buffer the caller holds
\* (and gives up with the call) or NULL.  stdlib.h free takes a live block
\* back; free(NULL) does nothing; any other argument is an error.
FreeString(t, str) ==
    /\ err = "none"
    /\ pc[t] = "idle"
    /\ owned' = [owned EXCEPT ![t] =
                    IF str = NULL THEN @ ELSE @ (-) SetToBag({str})]
    /\ LET args == FreeArgs(str) \ {NULL}
       IN  /\ err' = IF args \subseteq live THEN "none" ELSE "bad_free"
           /\ live' = live \ args
           /\ mem' = [r \in Regions |-> IF r \in args \cap live
                                        THEN <<>> ELSE mem[r]]
    /\ call' = [call EXCEPT ![t] =
                   [op |-> "free_string", arg |-> str, in |-> <<>>,
                    released |-> FreeArgs(str)]]
    /\ pc' = [pc EXCEPT ![t] = "freed"]
    /\ UNCHANGED <<c_input, c_len, c_result>>
    /\ UNCHANGED <<sumVars, fibVars>>

\* string_lib.c:19: free_string returns.
FreeReturn(t) ==
    /\ err = "none"
    /\ pc[t] = "freed"
    /\ pc' = [pc EXCEPT ![t] = "idle"]
    /\ call' = [call EXCEPT ![t] = NoCall]
    /\ UNCHANGED <<mem, live, err, c_input, c_len, c_result, owned>>
    /\ UNCHANGED <<sumVars, fibVars>>

StrInit ==
    /\ mem = [r \in Regions |-> IF r \in HeapPtrs THEN <<>> ELSE <<0>>]
    /\ live = {}
    /\ err = "none"
    /\ pc = [t \in Threads |-> "idle"]
    /\ c_input = [t \in Threads |-> NULL]
    /\ c_len = [t \in Threads |-> 0]
    /\ c_result = [t \in Threads |-> NULL]
    /\ owned = [t \in Threads |-> EmptyBag]
    /\ call = [t \in Threads |-> NoCall]

\* What a caller may pass to create_string: its input buffer with any string
\* in it, or a buffer it holds with the string that is in it.
Sources(t) ==
    {<<InPtr(t), s>> : s \in CStrings(t)}
        \cup {<<p, mem[p]>> : p \in BagToSet(owned[t])}

StrNext ==
    \/ \E a \in Sources(Main) : CreateCall(Main, a[1], a[2])
    \/ Malloc(Main)
    \/ Copy(Main)
    \/ Return(Main)
    \/ \E p \in BagToSet(owned[Main]) \cup {NULL} : FreeString(Main, p)
    \/ FreeReturn(Main)

ThreadsNext ==
    \/ \E t \in Threads : \E a \in Sources(t) : CreateCall(t, a[1], a[2])
    \/ \E t \in Threads : Malloc(t)
    \/ \E t \in Threads : Copy(t)
    \/ \E t \in Threads : Return(t)
    \/ \E t \in Threads :
          \E p \in BagToSet(owned[t]) \cup {NULL} : FreeString(t, p)
    \/ \E t \in Threads : FreeReturn(t)

---------------------------------------------------------------------------
(* The specifications.                                                     *)

vars == <<sumVars, fibVars, strVars>>

Init == SumInit /\ FibInit /\ StrInit

\* A program that uses one of the three routines.
Next ==
    \/ FibInit /\ StrInit /\ SumNext
    \/ SumInit /\ StrInit /\ FibNext
    \/ SumInit /\ FibInit /\ ThreadsNext

Spec == Init /\ [][Next]_vars

\* Each routine on its own; create_string / free_string with one caller, and
\* with all the threads.
SpecSum == Init /\ [][SumNext]_vars
SpecFib == Init /\ [][FibNext]_vars
SpecStr == Init /\ [][StrNext]_vars
SpecThreads == Init /\ [][ThreadsNext]_vars

\* fibonacci_iterative runs on: a loop that can take a step takes it.
SpecFibFair == SpecFib /\ WF_vars(FibStep) /\ WF_vars(FibReturn)

---------------------------------------------------------------------------
(* Reference values, computed another way than the code computes them.     *)

\* The exact sum of the squares of the first k elements of arr.
RECURSIVE MathSumSq(_, _)
MathSumSq(arr, k) ==
    IF k = 0 THEN Zero
    ELSE ZAdd(ZMul(ZOfInt(arr[k]), ZOfInt(arr[k])), MathSumSq(arr, k - 1))

\* Every running sum of the first n squares fits long long.
SumInContract(arr, n) == \A k \in 0..n : FitsLL(MathSumSq(arr, k))

\* <<F(n), F(n+1)>> by doubling: F(2k) = F(k) (2 F(k+1) - F(k)),
\* F(2k+1) = F(k)^2 + F(k+1)^2.
RECURSIVE FibPair(_)
FibPair(n) ==
    IF n = 0 THEN <<Zero, One>>
    ELSE LET h == FibPair(n \div 2)
             c == ZMul(h[1], ZSub(ZAdd(h[2], h[2]), h[1]))
             d == ZAdd(ZMul(h[1], h[1]), ZMul(h[2], h[2]))
         IN  IF n % 2 = 0 THEN <<c, d>> ELSE <<d, ZAdd(c, d)>>

MathFib(n) == FibPair(n)[1]

\* n is an index whose Fibonacci number fits long long (among the indices
\* callers pass, which lie beyond the last that fits).
FibInRange(n) == n \in 0..MaxFibN /\ FitsLL(MathFib(n))

\* The last array index sum_of_squares read.
LastRead == CHOOSE k \in s_reads : \A j \in s_reads : j <= k

---------------------------------------------------------------------------
(* The claims.                                                             *)

\* C1: for an array of n ints whose running sums of squares fit long long,
\* sum_of_squares neither overflows nor traps and returns the exact sum of
\* the n squares; with n = 0 it returns 0 and has read no element.
C1_SumExact ==
    /\ (s_pc # "idle" /\ SumInContract(s_arr, s_n))
          => s_pc # "trap" /\ s_ub = "none"
    /\ (s_pc = "done" /\ SumInContract(s_arr, s_n))
          => /\ s_ret = MathSumSq(s_arr, s_n)
             /\ sum_of_squares(s_arr, s_n) = [val |-> s_ret, ub |-> FALSE]
    /\ (s_pc = "done" /\ s_n = 0) => s_ret = Zero /\ s_reads = {}

C1_Witness ==
    /\ s_pc = "done"
    /\ s_n = 3
    /\ s_arr = <<INT_MIN, INT_MAX, -3>>
    /\ SumInContract(s_arr, s_n)
    /\ s_reads = {0, 1, 2}
    /\ Dec(s_ret) = "9223372032559808522"

\* C10: the squared term of every iteration is the exact square of the
\* element read, for every int value, and never overflows; the only overflow
\* is that of the running sum, and it happens only when a running sum of
\* exact squares does not fit long long.
C10_TermExact ==
    /\ s_ub \in {"none", "add"}
    /\ s_reads # {} =>
          s_term = ZMul(ZOfInt(s_arr[LastRead + 1]), ZOfInt(s_arr[LastRead + 1]))
    /\ s_ub = "add" =>
          \E k \in 1..Cardinality(s_reads) : ~FitsLL(MathSumSq(s_arr, k))

C10_Witness ==
    /\ s_pc = "loop"
    /\ s_reads = {0, 1}
    /\ s_arr[1] = INT_MAX
    /\ s_arr[2] = INT_MIN
    /\ Dec(s_term) = "4611686018427387904"
    /\ s_ub = "none"

\* C2: fibonacci_iterative(0) = 0, fibonacci_iterative(1) = 1,
\* fibonacci_iterative(10) = 55, and for n >= 2 whose Fibonacci number fits
\* long long the call meets no overflow and returns
\* fibonacci_iterative(n-1) + fibonacci_iterative(n-2).
C2_FibRecurrence ==
    /\ (f_pc = "done" /\ f_n = 0) => f_ret = Zero
    /\ (f_pc = "done" /\ f_n = 1) => f_ret = One
    /\ (f_pc = "done" /\ f_n = 10) => f_ret = ZOfInt(55)
    /\ (f_pc # "idle" /\ f_n >= 2 /\ FibInRange(f_n))
          => /\ f_pc # "trap"
             /\ f_ub = "none"
             /\ f_pc = "done" =>
                   /\ fibonacci_iterative(f_n) = [val |-> f_ret, ub |-> FALSE]
                   /\ f_ret = ZAdd(fibonacci_iterative(f_n - 1).val,
                                   fibonacci_iterative(f_n - 2).val)

C2_Witness ==
    /\ f_pc = "done"
    /\ f_n >= 2
    /\ FibInRange(f_n)
    /\ ~FibInRange(f_n + 1)
    /\ f_n = 92
    /\ Dec(f_ret) = "7540113804746346429"

\* C7: for every n <= 1, negative n included, fibonacci_iterative returns n
\* at once: the loop is never entered and no iteration runs.
C7_BaseCase ==
    (f_pc # "idle" /\ f_n <= 1)
        => f_pc = "done" /\ f_ret = ZOfInt(f_n) /\ f_iters = 0 /\ f_ub = "none"

C7_Witness ==
    /\ f_pc = "done"
    /\ f_n = INT_MIN
    /\ Dec(f_ret) = "-2147483648"

\* The rolling pair after f_iters iterations is (F(f_iters), F(f_iters+1)).
FibPairOk ==
    /\ f_prev = MathFib(f_iters)
    /\ f_current = MathFib(f_iters + 1)

\* C9 as stated: for every n >= 2, whatever its size, the loop ends
\* after exactly n-1 iterations and after the k-th iteration
\* (prev, current) = (F(k), F(k+1)).
C9_AsStated ==
    (f_pc # "idle" /\ f_n >= 2)
        => /\ f_pc # "trap"
           /\ FibPairOk
           /\ f_pc = "done" => f_iters = f_n - 1

\* The loop invariant of fibonacci_iterative.
C9_LoopInv ==
    /\ (f_pc # "idle" /\ f_n >= 2 /\ FibInRange(f_n))
          => /\ f_pc # "trap"
             /\ f_ub = "none"
             /\ FibPairOk
             /\ f_i = f_iters + 2
             /\ f_iters <= f_n - 1
             /\ f_pc = "done" => f_iters = f_n - 1 /\ f_ret = MathFib(f_n)
    /\ (f_pc \in {"loop", "left", "done"} /\ f_n >= 2
           /\ FitsLL(MathFib(f_iters + 1)))
          => FibPairOk

\* C9 amended: for every n >= 2 whose Fibonacci number fits long long
\* (n <= 92) the loop ends, after exactly n-1 iterations with i running from
\* 2 to n, and after the k-th iteration (prev, current) = (F(k), F(k+1)); for
\* a larger n the pair is (F(k), F(k+1)) as long as F(k+1) fits.
C9_Amended ==
    /\ []C9_LoopInv
    /\ (f_pc = "loop" /\ FibInRange(f_n)) ~> (f_pc = "done")

C9_Witness ==
    /\ f_pc = "done"
    /\ FibInRange(f_n)
    /\ ~FibInRange(f_n + 1)
    /\ f_iters = f_n - 1
    /\ f_i = f_n + 1

\* The value create_string is about to return in thread t.
Returned(t) == CreateReturn(c_input[t], c_result[ResultSlot(t)])

AtReturn(t) == pc[t] = "ret" /\ call[t].op = "create_string"

Held == UNION {BagToSet(owned[u]) : u \in Threads}

\* C3: when the allocation succeeds, create_string returns a live block of
\* exactly strlen(s)+1 bytes that holds s byte for byte with its terminator,
\* that is neither s nor a buffer a caller still holds, and s is unchanged.
C3_CreateCopies ==
    \A t \in Threads :
        (AtReturn(t) /\ c_result[ResultSlot(t)] # NULL)
            => /\ err = "none"
               /\ Returned(t) \in live
               /\ Len(mem[Returned(t)]) = strlen(call[t].in) + 1
               /\ mem[Returned(t)] = call[t].in
               /\ Returned(t) # call[t].arg
               /\ Returned(t) \notin Held
               /\ mem[call[t].arg] = call[t].in

C3_Witness ==
    /\ AtReturn(Main)
    /\ c_result[ResultSlot(Main)] # NULL
    /\ call[Main].arg \in HeapPtrs
    /\ Len(call[Main].in) = 3
    /\ mem[Returned(Main)] = mem[call[Main].arg]

\* What holds when create_string returns after a failed malloc.
C4_AtReturn ==
    \A t \in Threads :
        (AtReturn(t) /\ c_result[ResultSlot(t)] = NULL)
            => /\ Returned(t) = NULL
               /\ err = "none"
               /\ call[t].released = {}
               /\ mem[call[t].arg] = call[t].in

\* The steps from a failed malloc to the return.
C4_Step ==
    \A t \in Threads :
        (pc[t] \in {"malloc", "copy"} /\ pc'[t] # pc[t]
            /\ c_result'[ResultSlot(t)] = NULL)
            => mem' = mem /\ live' = live /\ err' = "none"

\* C4: when malloc fails, create_string returns NULL, and from the failure
\* to the return no byte of memory changes, the live blocks stay the same and
\* no error happens.
C4_AllocFailure == []C4_AtReturn /\ [][C4_Step]_vars

C4_Witness ==
    /\ AtReturn(Main)
    /\ c_result[ResultSlot(Main)] = NULL
    /\ live # {}
    /\ Cardinality(live) < HeapSize

\* What holds when free_string(NULL) returns.
C5_AtReturn ==
    \A t \in Threads :
        (pc[t] = "freed" /\ call[t].arg = NULL)
            => call[t].released = {} /\ err = "none"

\* The step free_string(NULL).
C5_Step ==
    \A t \in Threads :
        (pc[t] = "idle" /\ pc'[t] = "freed" /\ call'[t].arg = NULL)
            => mem' = mem /\ live' = live /\ err' = err /\ owned' = owned

\* C5: free_string(NULL) passes nothing to free, raises no error and leaves
\* the heap (the live blocks, every byte) and the caller's buffers as they
\* were, in whatever state it is called.
C5_FreeNull == []C5_AtReturn /\ [][C5_Step]_vars

C5_Witness ==
    /\ pc[Main] = "freed"
    /\ call[Main].arg = NULL
    /\ Cardinality(live) = 2

\* What holds in every state of a single caller's run.
C6_Inv ==
    /\ err = "none"
    /\ \A p \in HeapPtrs : CopiesIn(p, owned[Main]) <= 1
    /\ pc[Main] = "idle" => live = BagToSet(owned[Main])
    /\ \A t \in Threads :
          (pc[t] = "freed" /\ call[t].arg # NULL)
              => call[t].released = {call[t].arg}

\* The step free_string(p), p not NULL.
C6_Step ==
    \A t \in Threads :
        (pc[t] = "idle" /\ pc'[t] = "freed" /\ call'[t].arg # NULL)
            => /\ call'[t].arg \in live
               /\ live' = live \ {call'[t].arg}
               /\ \A r \in Regions \ {call'[t].arg} : mem'[r] = mem[r]

\* C6: with a caller that releases each buffer it was given once and does
\* not use it afterwards, no memory error happens; the caller never holds a
\* buffer twice; between calls the live blocks are exactly the buffers the
\* caller holds, so none is live once all are released; and free_string(p)
\* passes p and nothing else to free, which takes back p and no other block
\* and changes no other region.
C6_CreateFreeSafe == []C6_Inv /\ [][C6_Step]_vars

C6_Witness ==
    /\ pc[Main] = "freed"
    /\ call[Main].arg = 2
    /\ owned[Main] = EmptyBag
    /\ live = {}

\* What holds in every state of the threads' run.
C8_Inv ==
    /\ err = "none"
    /\ \A t \in Threads :
          (AtReturn(t) /\ c_result[ResultSlot(t)] # NULL)
              => /\ Returned(t) \in live
                 /\ mem[Returned(t)] = call[t].in
                 /\ Returned(t) \notin Held
                 /\ \A u \in Threads \ {t} :
                       pc[u] \in {"copy", "ret"}
                           => c_result[ResultSlot(u)] # Returned(t)
    /\ \A t \in Threads :
          /\ \A p \in BagToSet(owned[t]) :
                /\ CopiesIn(p, owned[t]) = 1
                /\ p \in live
                /\ mem[p] \in CStrings(t)
          /\ \A u \in Threads \ {t} :
                BagToSet(owned[t]) \cap BagToSet(owned[u]) = {}

\* A step of one thread.
C8_Step ==
    \A t \in Threads :
        pc'[t] # pc[t] =>
            \A u \in Threads \ {t} :
                /\ pc'[u] = pc[u]
                /\ c_input'[u] = c_input[u]
                /\ c_len'[u] = c_len[u]
                /\ c_result'[ResultSlot(u)] = c_result[ResultSlot(u)]
                /\ owned'[u] = owned[u]
                /\ call'[u] = call[u]
                /\ mem'[InPtr(u)] = mem[InPtr(u)]
                /\ \A p \in BagToSet(owned[u]) : mem'[p] = mem[p]

\* C8: under every interleaving of the threads, no memory error (so no
\* double release) happens; the buffer a thread is given is live, holds that
\* thread's own string, and is neither held by any thread nor the result of
\* another invocation in progress; no buffer is held twice or by two threads,
\* and a held buffer holds a string of its holder; and a step of one thread
\* changes no local, input buffer or held buffer of another.
C8_ThreadSafe == []C8_Inv /\ [][C8_Step]_vars

C8_Witness ==
    /\ \A t \in Threads : AtReturn(t) /\ c_result[ResultSlot(t)] # NULL
    /\ \A t \in Threads : Len(call[t].in) = 2
    /\ \A t \in Threads : mem[Returned(t)] = call[t].in

============================================================================
